---- MODULE Spec2Model ----
\* Free Time Slot Finder (src/app.py): the form-submission handler and
\* get_free_times_for_date_range, as a state machine.
\*
\* Encoding of values
\*   date      <<year, month, day>>            (datetime.date)
\*   datetime  minutes since ordinal day 0     (naive datetime.datetime; the
\*             order and the timedelta arithmetic are those of the integers)
\*   "%Y-%m-%d" string   <<year digits, month digits, day digits>>
\*   event     a record of the properties the component has: DTSTART and
\*             DTEND hold the property's .dt; value_type tells whether the
\*             .dt values are datetime.datetime ("datetime") or, for an
\*             all-day event, datetime.date ("date", encoded as the
\*             midnight of the date); an event without a DTEND property
\*             has no DTEND field
\*   free slot <<start, end>>
\*   dict      sequence of <<key, value>> in insertion order
EXTENDS Integers, Sequences, FiniteSets

\* ---------------------------------------------------------------- bounds
\* number of consecutive calendar days the two date pickers range over
NumDates == 2
\* largest number of events the expansion returns for a day of a one-day
\* query; a query over n days gets at most MaxEvents + 1 - n events per day
MaxEvents == 2

\* ------------------------------------------------------------- the state
VARIABLES
    pc,                 \* position in the script
    start_date,         \* form: Start Date
    end_date,           \* form: End Date
    work_start_hour,    \* form: Start Hour
    work_end_hour,      \* form: End Hour
    delay_before,       \* form: Buffer Time Before (minutes)
    delay_after,        \* form: Buffer Time After (minutes)
    start_date_str,     \* start_date.strftime("%Y-%m-%d")
    end_date_str,       \* end_date.strftime("%Y-%m-%d")
    response,           \* outcome of requests.get
    x,                  \* dates of the range already stored
    current_date,       \* loop variable of the date loop
    events_for_day,     \* the events of current_date
    n_applied,          \* events of events_for_day already applied
    free_times,         \* the free list being reduced
    free_times_by_date, \* the mapping under construction
    returned,           \* the function has returned free_times_by_date
    exception,          \* the exception the handler caught
    shown               \* what the page shows for the submission

vars == <<pc, start_date, end_date, work_start_hour, work_end_hour,
          delay_before, delay_after, start_date_str, end_date_str, response,
          x, current_date, events_for_day, n_applied, free_times,
          free_times_by_date, returned, exception, shown>>

form == <<start_date, end_date, work_start_hour, work_end_hour,
          delay_before, delay_after>>

\* ------------------------------------------------------- datetime.date
IsLeap(y) == (y % 4 = 0) /\ ((y % 100 # 0) \/ (y % 400 = 0))

DaysInMonth(y, m) ==
    IF m = 2 THEN (IF IsLeap(y) THEN 29 ELSE 28)
    ELSE IF m \in {4, 6, 9, 11} THEN 30 ELSE 31

RECURSIVE DaysBeforeMonth(_, _)
DaysBeforeMonth(y, m) ==
    IF m = 1 THEN 0 ELSE DaysBeforeMonth(y, m - 1) + DaysInMonth(y, m - 1)

DaysBeforeYear(y) ==
    ((y - 1) * 365) + ((y - 1) \div 4) - ((y - 1) \div 100) + ((y - 1) \div 400)

\* date.toordinal(): 0001-01-01 is day 1
toordinal(d) == DaysBeforeYear(d[1]) + DaysBeforeMonth(d[1], d[2]) + d[3]

\* date.fromordinal(n), by the 400/100/4/1-year cycles
fromordinal(n) ==
    LET n0   == n - 1
        n400 == n0 \div 146097
        r400 == n0 % 146097
        n100 == r400 \div 36524
        r100 == r400 % 36524
        n4   == r100 \div 1461
        r4   == r100 % 1461
        n1   == r4 \div 365
        r1   == r4 % 365
        year == (n400 * 400) + 1 + (n100 * 100) + (n4 * 4) + n1
        m    == CHOOSE mm \in 1..12 :
                    /\ DaysBeforeMonth(year, mm) <= r1
                    /\ r1 < DaysBeforeMonth(year, mm) + DaysInMonth(year, mm)
    IN  IF n1 = 4 \/ n100 = 4
        THEN <<year - 1, 12, 31>>
        ELSE <<year, m, r1 - DaysBeforeMonth(year, m) + 1>>

\* date + datetime.timedelta(days = k)
DatePlusDays(d, k) == fromordinal(toordinal(d) + k)

\* (d2 - d1).days
DaysBetween(d1, d2) == toordinal(d2) - toordinal(d1)

\* d1 > d2 on dates: year, then month, then day
DateGreater(d1, d2) ==
    \/ d1[1] > d2[1]
    \/ d1[1] = d2[1] /\ d1[2] > d2[2]
    \/ d1[1] = d2[1] /\ d1[2] = d2[2] /\ d1[3] > d2[3]

\* ------------------------------------------------- strftime / strptime
RECURSIVE Digits(_, _)
\* the decimal digits of n, zero-padded to width w
Digits(n, w) ==
    IF w = 0 THEN <<>> ELSE Append(Digits(n \div 10, w - 1), n % 10)

RECURSIVE Number(_)
\* the value of a digit string
Number(ds) ==
    IF ds = <<>> THEN 0
    ELSE (10 * Number(SubSeq(ds, 1, Len(ds) - 1))) + ds[Len(ds)]

\* date.strftime("%Y-%m-%d")
strftime(d) == <<Digits(d[1], 4), Digits(d[2], 2), Digits(d[3], 2)>>

\* datetime.datetime.strptime(s, "%Y-%m-%d").date()
strptime(s) == <<Number(s[1]), Number(s[2]), Number(s[3])>>

\* --------------------------------------------------- datetime.datetime
\* datetime.datetime.combine(d, datetime.time(hour, 0))
combine(d, hour) == ((toordinal(d) * 24) + hour) * 60

\* ----------------------------------------------------------- the inputs
\* the days the date pickers offer: 2024-02-28 and the days after it
Dates == { DatePlusDays(<<2024, 2, 28>>, i) : i \in 0..(NumDates - 1) }

\* the hours entered in the two number inputs
HourChoices == {9, 11}

\* the positions of the two buffer sliders that are exercised
DelayChoices == {0, 30}

\* the instants at which the events of day d start and end: every half
\* hour from 09:00 to 11:00
EventTimes(d) == { combine(d, 9) + (30 * i) : i \in 0..4 }

\* the timed events of day d: datetime-valued, DTSTART <= DTEND
TimedEventsOn(d) ==
    { ev \in [DTSTART : EventTimes(d), DTEND : EventTimes(d),
              value_type : {"datetime"}] :
          ev.DTSTART <= ev.DTEND }

\* the all-day event of day d: DTSTART and DTEND are the dates d and d + 1
AllDayEventsOn(d) ==
    { [DTSTART |-> combine(d, 0), DTEND |-> combine(DatePlusDays(d, 1), 0),
       value_type |-> "date"] }

\* an event of day d that has a DTSTART at 10:00 and no DTEND property
OpenEventsOn(d) ==
    { [DTSTART |-> combine(d, 10), value_type |-> "datetime"] }

\* the events of day d
EventsOn(d) == TimedEventsOn(d) \cup AllDayEventsOn(d) \cup OpenEventsOn(d)

RECURSIVE SeqsUpTo(_, _)
\* the sequences over S of length at most n
SeqsUpTo(S, n) ==
    IF n <= 0 THEN { <<>> }
    ELSE LET shorter == SeqsUpTo(S, n - 1)
         IN  shorter \cup { Append(q, v) : q \in shorter, v \in S }

\* what recurring_ical_events.of(calendar).between(d, d + 1 day) may return
\* in a query over `days` days
EventLists(d, days) == SeqsUpTo(EventsOn(d), MaxEvents + 1 - days)

\* the value of current_date before the loop has assigned it
NoDate == <<0, 0, 0>>

\* ------------------------------------------ get_free_times_for_date_range
\* variant: range(0, (end_date - start_date).days), the last date left out
RangeLengthExclusive(first, last) == DaysBetween(first, last)

\* the number of dates the loop visits: (end_date - start_date).days + 1
RangeLength(first, last) == DaysBetween(first, last) + 1

\* variant: the window itself narrowed by the two buffers
InitialFreeTimesBuffered(work_start, work_end) ==
    << <<work_start + delay_before, work_end - delay_after>> >>

\* the free list a day starts from: the whole working window
InitialFreeTimes(work_start, work_end) == << <<work_start, work_end>> >>

\* what reading event["DTSTART"].dt.replace(tzinfo=None) and
\* event["DTEND"].dt.replace(tzinfo=None) raises: date.replace() takes no
\* tzinfo (TypeError, at the DTSTART line), a missing DTEND is a KeyError
EventError(event) ==
    IF event.value_type = "date" THEN "TypeError"
    ELSE IF "DTEND" \notin DOMAIN event THEN "KeyError"
    ELSE "none"

\* the event's start moved back by the buffer before it
AdjustedStart(event, before) == event.DTSTART - before

\* variant: the buffer taken off the end instead of added to it
AdjustedEndSubtracted(event, after) == event.DTEND - after

\* the event's end moved on by the buffer after it
AdjustedEnd(event, after) == event.DTEND + after

\* variant: only the event-after-slot test keeps a slot
SplitSlotOneSided(start, end, adjusted_start, adjusted_end) ==
    IF adjusted_start >= end
    THEN << <<start, end>> >>
    ELSE (IF adjusted_start > start
          THEN << <<start, adjusted_start>> >> ELSE <<>>)
         \o (IF adjusted_end < end
             THEN << <<adjusted_end, end>> >> ELSE <<>>)

\* variant: a slot the event misses is not appended
SplitSlotDropKept(start, end, adjusted_start, adjusted_end) ==
    IF adjusted_start >= end \/ adjusted_end <= start
    THEN <<>>
    ELSE (IF adjusted_start > start
          THEN << <<start, adjusted_start>> >> ELSE <<>>)
         \o (IF adjusted_end < end
             THEN << <<adjusted_end, end>> >> ELSE <<>>)

\* variant: elif in place of the second if, at most one piece per slot
SplitSlotElif(start, end, adjusted_start, adjusted_end) ==
    IF adjusted_start >= end \/ adjusted_end <= start
    THEN << <<start, end>> >>
    ELSE IF adjusted_start > start
         THEN << <<start, adjusted_start>> >>
         ELSE IF adjusted_end < end
              THEN << <<adjusted_end, end>> >> ELSE <<>>

\* variant: both pieces appended without their guards
SplitSlotNoGuard(start, end, adjusted_start, adjusted_end) ==
    IF adjusted_start >= end \/ adjusted_end <= start
    THEN << <<start, end>> >>
    ELSE << <<start, adjusted_start>>, <<adjusted_end, end>> >>

\* what one free slot (start, end) contributes to updated_free_times
SplitSlot(start, end, adjusted_start, adjusted_end) ==
    IF adjusted_start >= end \/ adjusted_end <= start
    THEN << <<start, end>> >>
    ELSE (IF adjusted_start > start
          THEN << <<start, adjusted_start>> >> ELSE <<>>)
         \o (IF adjusted_end < end
             THEN << <<adjusted_end, end>> >> ELSE <<>>)

RECURSIVE SubtractEvent(_, _, _)
\* updated_free_times: the slots of free, in order, each split by the event
SubtractEvent(free, adjusted_start, adjusted_end) ==
    IF free = <<>> THEN <<>>
    ELSE SplitSlot(free[1][1], free[1][2], adjusted_start, adjusted_end)
         \o SubtractEvent(Tail(free), adjusted_start, adjusted_end)

\* one pass of the loop over events_for_day
ApplyOne(free, event, before, after) ==
    SubtractEvent(free, AdjustedStart(event, before), AdjustedEnd(event, after))

RECURSIVE FoldEvents(_, _, _, _)
\* the loop over events_for_day, from the free list it starts with
FoldEvents(free, events, before, after) ==
    IF events = <<>> THEN free
    ELSE FoldEvents(ApplyOne(free, Head(events), before, after),
                    Tail(events), before, after)

\* dict[key] = value: replaces the value of a key already present, else
\* adds the key at the end
DictSet(dict, key, value) ==
    IF \E i \in 1..Len(dict) : dict[i][1] = key
    THEN [i \in 1..Len(dict) |->
              IF dict[i][1] = key THEN <<key, value>> ELSE dict[i]]
    ELSE Append(dict, <<key, value>>)

\* the keys of a dict, in insertion order
DictKeys(dict) == [i \in 1..Len(dict) |-> dict[i][1]]

\* dict[key], for a key present
DictGet(dict, key) ==
    dict[CHOOSE i \in 1..Len(dict) : dict[i][1] = key][2]

\* ---------------------------------------------------------- the script
\* the function's own start_date and end_date, parsed from the strings
FnStartDate == strptime(start_date_str)
FnEndDate == strptime(end_date_str)

work_start == combine(current_date, work_start_hour)
work_end == combine(current_date, work_end_hour)

\* the form has been submitted with some values
Init ==
    /\ pc = "submitted"
    /\ start_date \in Dates
    /\ end_date \in Dates
    /\ work_start_hour \in HourChoices
    /\ work_end_hour \in HourChoices
    /\ delay_before \in DelayChoices
    /\ delay_after \in DelayChoices
    /\ start_date_str = <<>>
    /\ end_date_str = <<>>
    /\ response = "none"
    /\ x = 0
    /\ current_date = NoDate
    /\ events_for_day = <<>>
    /\ n_applied = 0
    /\ free_times = <<>>
    /\ free_times_by_date = <<>>
    /\ returned = FALSE
    /\ exception = "none"
    /\ shown = "none"

\* start_date > end_date: the range error
RejectRange ==
    /\ pc = "submitted"
    /\ DateGreater(start_date, end_date)
    /\ shown' = "Error: Start date must be before end date."
    /\ pc' = "done"
    /\ UNCHANGED <<form, start_date_str, end_date_str, response, x,
                   current_date, events_for_day, n_applied, free_times,
                   free_times_by_date, returned, exception>>

\* work_start_hour >= work_end_hour: the working-hours error
RejectHours ==
    /\ pc = "submitted"
    /\ ~DateGreater(start_date, end_date)
    /\ work_start_hour >= work_end_hour
    /\ shown' = "Error: Working hours end time must be after start time."
    /\ pc' = "done"
    /\ UNCHANGED <<form, start_date_str, end_date_str, response, x,
                   current_date, events_for_day, n_applied, free_times,
                   free_times_by_date, returned, exception>>

\* the dates are formatted and the function is called
Call ==
    /\ pc = "submitted"
    /\ ~DateGreater(start_date, end_date)
    /\ work_start_hour < work_end_hour
    /\ start_date_str' = strftime(start_date)
    /\ end_date_str' = strftime(end_date)
    /\ pc' = "fetch"
    /\ UNCHANGED <<form, response, x, current_date, events_for_day,
                   n_applied, free_times, free_times_by_date, returned,
                   exception, shown>>

\* requests.get raises (no connection, no response): the handler's except
FetchRaises ==
    /\ pc = "fetch"
    /\ response' = "no_response"
    /\ exception' = "RequestException"
    /\ shown' = "Error occurred"
    /\ pc' = "done"
    /\ UNCHANGED <<form, start_date_str, end_date_str, x, current_date,
                   events_for_day, n_applied, free_times, free_times_by_date,
                   returned>>

\* requests.get returns a response, of whatever status, whose content
\* Calendar.from_ical rejects: the handler's except
ParseRaises ==
    /\ pc = "fetch"
    /\ response' \in {"ok", "http_error"}
    /\ exception' = "ValueError"
    /\ shown' = "Error occurred"
    /\ pc' = "done"
    /\ UNCHANGED <<form, start_date_str, end_date_str, x, current_date,
                   events_for_day, n_applied, free_times, free_times_by_date,
                   returned>>

\* requests.get returns a response, of whatever status, whose content
\* parses; the dates are parsed and the mapping starts empty
Parsed ==
    /\ pc = "fetch"
    /\ response' \in {"ok", "http_error"}
    /\ free_times_by_date' = <<>>
    /\ x' = 0
    /\ pc' = "loop"
    /\ UNCHANGED <<form, start_date_str, end_date_str, current_date,
                   events_for_day, n_applied, free_times, returned,
                   exception, shown>>

\* the date loop takes its next date, expands its events and starts the
\* free list from the working window
DayStart ==
    /\ pc = "loop"
    /\ x < RangeLength(FnStartDate, FnEndDate)
    /\ current_date' = DatePlusDays(FnStartDate, x)
    /\ events_for_day' \in
           EventLists(current_date', DaysBetween(FnStartDate, FnEndDate) + 1)
    /\ free_times' = InitialFreeTimes(combine(current_date', work_start_hour),
                                      combine(current_date', work_end_hour))
    /\ n_applied' = 0
    /\ pc' = "events"
    /\ UNCHANGED <<form, start_date_str, end_date_str, response, x,
                   free_times_by_date, returned, exception, shown>>

\* the event loop applies its next event to the free list
ApplyEvent ==
    /\ pc = "events"
    /\ n_applied < Len(events_for_day)
    /\ EventError(events_for_day[n_applied + 1]) = "none"
    /\ free_times' = ApplyOne(free_times, events_for_day[n_applied + 1],
                              delay_before, delay_after)
    /\ n_applied' = n_applied + 1
    /\ UNCHANGED <<pc, form, start_date_str, end_date_str, response, x,
                   current_date, events_for_day, free_times_by_date,
                   returned, exception, shown>>

\* reading the next event's DTSTART or DTEND raises: the function is left
\* in the middle of the date loop, nothing is returned, the handler's except
EventRaises ==
    /\ pc = "events"
    /\ n_applied < Len(events_for_day)
    /\ EventError(events_for_day[n_applied + 1]) # "none"
    /\ exception' = EventError(events_for_day[n_applied + 1])
    /\ shown' = "Error occurred"
    /\ pc' = "done"
    /\ UNCHANGED <<form, start_date_str, end_date_str, response, x,
                   current_date, events_for_day, n_applied, free_times,
                   free_times_by_date, returned>>

\* the event loop is over: the free list is stored under the date
StoreDay ==
    /\ pc = "events"
    /\ n_applied = Len(events_for_day)
    /\ free_times_by_date' = DictSet(free_times_by_date, current_date, free_times)
    /\ x' = x + 1
    /\ pc' = "loop"
    /\ UNCHANGED <<form, start_date_str, end_date_str, response,
                   current_date, events_for_day, n_applied, free_times,
                   returned, exception, shown>>

\* the date loop is over: the mapping is returned and shown
Return ==
    /\ pc = "loop"
    /\ x >= RangeLength(FnStartDate, FnEndDate)
    /\ returned' = TRUE
    /\ shown' = IF free_times_by_date = <<>>
                THEN "No free time slots found in the selected date range."
                ELSE "Available Free Time Slots"
    /\ pc' = "done"
    /\ UNCHANGED <<form, start_date_str, end_date_str, response, x,
                   current_date, events_for_day, n_applied, free_times,
                   free_times_by_date, exception>>

Next ==
    \/ RejectRange
    \/ RejectHours
    \/ Call
    \/ FetchRaises
    \/ ParseRaises
    \/ Parsed
    \/ DayStart
    \/ ApplyEvent
    \/ EventRaises
    \/ StoreDay
    \/ Return

Spec == Init /\ [][Next]_vars

\* ------------------------------------------------------------ properties
\* the last date of the loop has been stored and is still current_date
DayStored == x > 0 /\ (pc = "loop" \/ returned)

\* the free list stored for current_date
Stored == DictGet(free_times_by_date, current_date)

\* instant t lies in a slot of free, slots read as half-open [start, end)
InSome(t, free) == \E i \in 1..Len(free) : free[i][1] <= t /\ t < free[i][2]

\* instant t lies in the buffered span of one of the events
Covered(t, events) ==
    \E i \in 1..Len(events) :
        /\ events[i].DTSTART - delay_before <= t
        /\ t < events[i].DTEND + delay_after

\* every slot of free lies in the window [ws, we] and is not empty, and
\* consecutive slots do not overlap
WithinWindow(free, ws, we) ==
    /\ \A i \in 1..Len(free) :
           ws <= free[i][1] /\ free[i][1] < free[i][2] /\ free[i][2] <= we
    /\ \A i \in 1..(Len(free) - 1) : free[i][2] <= free[i + 1][1]

\* the slots of a free list, as a set
SlotSet(free) == { free[i] : i \in 1..Len(free) }

\* the permutations of 1..n
Perms(n) == { f \in [1..n -> 1..n] : \A i, j \in 1..n : f[i] = f[j] => i = j }

\* an event has just been applied: the step of ApplyEvent
EventStep == pc = "events" /\ n_applied' = n_applied + 1

\* consecutive slots are strictly apart and no slot can be extended inside
\* the window without meeting a buffered event
Maximal(free, events, ws, we) ==
    /\ \A i \in 1..(Len(free) - 1) : free[i][2] < free[i + 1][1]
    /\ \A i \in 1..Len(free) :
           /\ free[i][1] = ws \/ Covered(free[i][1] - 1, events)
           /\ free[i][2] = we \/ Covered(free[i][2], events)

\* C1: the list stored for a date covers exactly the free time of its
\* window: an instant of [work_start, work_end) lies in a stored slot if and
\* only if no buffered event of the day covers it.
C1_ExactCover ==
    DayStored =>
        LET ws == work_start
            we == work_end
            stored == Stored
        IN  \A t \in ws..(we - 1) :
                InSome(t, stored) <=> ~Covered(t, events_for_day)

C1_Witness ==
    /\ DayStored
    /\ Len(events_for_day) = 2
    /\ delay_before > 0
    /\ Len(Stored) = 2
    /\ \E t \in work_start..(work_end - 1) : Covered(t, events_for_day)

\* C2: after any prefix of a day's events, and in every stored list, each
\* slot satisfies work_start <= s < e <= work_end and consecutive slots
\* satisfy e1 <= s2, whatever the buffers.
C2_WithinWindowOrdered ==
    /\ pc = "events" => WithinWindow(free_times, work_start, work_end)
    /\ \A i \in 1..Len(free_times_by_date) :
           WithinWindow(free_times_by_date[i][2],
                        combine(free_times_by_date[i][1], work_start_hour),
                        combine(free_times_by_date[i][1], work_end_hour))

C2_Witness ==
    /\ pc = "events"
    /\ n_applied = 2
    /\ delay_before > 0
    /\ delay_after > 0
    /\ events_for_day[1].DTSTART - delay_before < work_start
    /\ events_for_day[2].DTEND + delay_after > work_end
    /\ free_times # <<>>

\* C3: the returned mapping has exactly the dates start_date, start_date + 1,
\* ..., end_date as keys, in that order, dates with an empty list included.
C3_KeysAreTheRange ==
    returned =>
        LET keys == DictKeys(free_times_by_date)
        IN  /\ Len(keys) >= 1
            /\ keys[1] = start_date
            /\ keys[Len(keys)] = end_date
            /\ \A i \in 1..(Len(keys) - 1) :
                   /\ keys[i + 1] \in Dates
                   /\ toordinal(keys[i + 1]) = toordinal(keys[i]) + 1

C3_Witness ==
    /\ returned
    /\ Len(free_times_by_date) = 2
    /\ start_date # end_date
    /\ free_times_by_date[1][2] = <<>>
    /\ free_times_by_date[2][2] # <<>>

\* C4: a date whose expansion returns no events stores exactly the one-slot
\* list [(date at work_start_hour:00, date at work_end_hour:00)], whatever
\* the buffers.
C4_NoEventsWholeWindow ==
    (DayStored /\ events_for_day = <<>>) =>
        Stored = << <<combine(current_date, work_start_hour),
                      combine(current_date, work_end_hour)>> >>

C4_Witness ==
    /\ DayStored
    /\ events_for_day = <<>>
    /\ delay_before > 0
    /\ delay_after > 0
    /\ free_times_by_date[Len(free_times_by_date)][1] = current_date

\* C5: without buffers, folding the day's events in any order gives the same
\* set of free slots as the order they came in.
C5_OrderIndependent ==
    (DayStored /\ delay_before = 0 /\ delay_after = 0) =>
        \A f \in Perms(Len(events_for_day)) :
            SlotSet(FoldEvents(InitialFreeTimes(work_start, work_end),
                               [i \in 1..Len(events_for_day) |->
                                    events_for_day[f[i]]], 0, 0))
                = SlotSet(Stored)

C5_Witness ==
    /\ DayStored
    /\ delay_before = 0
    /\ delay_after = 0
    /\ Len(events_for_day) = 2
    /\ events_for_day[1].DTSTART < events_for_day[2].DTSTART
    /\ events_for_day[2].DTSTART < events_for_day[1].DTEND
    /\ events_for_day[1].DTEND < events_for_day[2].DTEND
    /\ Stored # <<>>

\* C6, as claimed: for every event list, events of zero length included,
\* consecutive stored slots are strictly apart and every stored slot is
\* maximal.
C6_MaximalForEveryEventList ==
    DayStored => Maximal(Stored, events_for_day, work_start, work_end)

\* C6 restricted to days on which every buffered event has
\* adjusted_start < adjusted_end: there the stored slots are strictly apart
\* and maximal, so the events of zero length are the only case in which the
\* stored list is not minimal.
C6_MaximalForNonEmptyEvents ==
    (/\ DayStored
     /\ \A i \in 1..Len(events_for_day) :
            events_for_day[i].DTSTART - delay_before
                < events_for_day[i].DTEND + delay_after)
        => Maximal(Stored, events_for_day, work_start, work_end)

C6_Witness ==
    /\ DayStored
    /\ Len(events_for_day) = 2
    /\ \A i \in 1..2 :
            events_for_day[i].DTSTART - delay_before
                < events_for_day[i].DTEND + delay_after
    /\ events_for_day[1].DTEND + delay_after
           = events_for_day[2].DTSTART - delay_before
    /\ Len(Stored) = 2

\* C7: a slot (s, e) that the event being applied only touches
\* (event_end + buffer_after = s, or event_start - buffer_before = e) is in
\* the updated list with the same endpoints, and nothing else of the
\* updated list lies in [s, e].
C7_TouchingKeepsSlot ==
    [][EventStep =>
         LET ev == events_for_day[n_applied + 1]
         IN  \A i \in 1..Len(free_times) :
                 (\/ ev.DTEND + delay_after = free_times[i][1]
                  \/ ev.DTSTART - delay_before = free_times[i][2])
                 => { j \in 1..Len(free_times') :
                          /\ free_times[i][1] <= free_times'[j][1]
                          /\ free_times'[j][2] <= free_times[i][2] }
                    = { j \in 1..Len(free_times') :
                          free_times'[j] = free_times[i] }
                    /\ \E j \in 1..Len(free_times') :
                          free_times'[j] = free_times[i]]_vars

C7_Witness ==
    /\ pc = "events"
    /\ n_applied = 2
    /\ delay_after > 0
    /\ LET ev == events_for_day[2]
       IN  /\ ev.DTSTART < ev.DTEND
           /\ \E i \in 1..Len(free_times) :
                  ev.DTEND + delay_after = free_times[i][1]
           /\ \E i \in 1..Len(free_times) :
                  ev.DTSTART - delay_before = free_times[i][2]

\* C8: applying again any event already applied leaves the free list as
\* it is.
C8_Idempotent ==
    pc \in {"events", "loop", "done"} =>
        \A j \in 1..n_applied :
            ApplyOne(free_times, events_for_day[j], delay_before, delay_after)
                = free_times

C8_Witness ==
    /\ pc = "events"
    /\ n_applied = 2
    /\ Len(free_times) = 2
    /\ delay_before > 0
    /\ events_for_day[1] # events_for_day[2]
    /\ \A j \in 1..2 : \E t \in work_start..(work_end - 1) :
           /\ events_for_day[j].DTSTART - delay_before <= t
           /\ t < events_for_day[j].DTEND + delay_after

\* C9, as claimed: when the fetch does not succeed (a non-success response
\* or no response at all) the query ends in a fetch error, not in the error
\* of a malformed document, and returns no mapping.
C9_FetchFailureIsFetchError ==
    (pc = "done" /\ response \in {"http_error", "no_response"}) =>
        (exception = "RequestException" /\ ~returned)

\* C10: applying an event never creates free time: every slot of the updated
\* list lies in a slot of the list before, the list grows by at most one
\* slot, and after k events it has at most k + 1 slots.
C10_NeverCreatesFreeTime ==
    [][EventStep =>
         /\ \A j \in 1..Len(free_times') :
                \E i \in 1..Len(free_times) :
                    /\ free_times[i][1] <= free_times'[j][1]
                    /\ free_times'[j][2] <= free_times[i][2]
         /\ Len(free_times') <= Len(free_times) + 1
         /\ Len(free_times') <= n_applied' + 1]_vars

C10_Witness ==
    /\ pc = "events"
    /\ n_applied = 2
    /\ Len(free_times) = 3
    /\ delay_before = 0
    /\ delay_after = 0

====
